---- MODULE Spec2Model ----
(***************************************************************************)
(* State-machine model of the autoRig rigging toolkit (src/AUTORIG/*.py,   *)
(* duplicated in src/autoRig.py).  The toolkit is six manager classes that *)
(* validate a UI-supplied string or the host selection and forward it, one *)
(* command at a time, to the host's command layer (maya.cmds).             *)
(*                                                                         *)
(* Strings are sequences of tokens.  The tokens are chosen so that every   *)
(* pattern the code searches for ('_drv_jnt', '_jnt', '_jnt1', ...) is a   *)
(* whole number of tokens wherever it can occur: a digit, a white-space    *)
(* character, a character outside ASCII and a '/' of a path are each a     *)
(* token of their own.  So                                                 *)
(* str.replace, str.strip, '+', os.path.join and the host's glob patterns  *)
(* ('*_drv_jnt') act on token sequences as they act on the characters.     *)
(* 'spine_drv_jnt' is <<"spine","_drv","_jnt">>, 'hip_IK_jnt10' is         *)
(* <<"hip","_IK","_jnt","1","0">>.                                         *)
(*                                                                         *)
(* The host is modelled as far as the code observes it: a list of named    *)
(* nodes with a parent, a type, lock flags, a draw style, a visibility     *)
(* flag and a skin-cluster history; the selection; the scene file name;    *)
(* the weights of each skin cluster; the user's home directory and the     *)
(* directories and files that exist.  Every command that creates or names  *)
(* a node makes the name unique by a numeric suffix, as the host does.  A  *)
(* command that changes the scene may be rejected by the host for reasons  *)
(* the code cannot see.  A node of the user's scene carries what the host  *)
(* refuses to change on it (a locked or referenced node refuses a rename,  *)
(* a connected attribute refuses a new value), and so do a skin cluster    *)
(* and the scene file; for the nodes the rig builder creates itself the    *)
(* rejection is an input of the operation, the set of ordinals of the      *)
(* commands rejected within it.  A rejected command raises a Python        *)
(* exception, which skips every statement up to the enclosing except       *)
(* clause, or leaves the operation when there is none.                     *)
(***************************************************************************)
EXTENDS Integers, Sequences, FiniteSets, TLC

VARIABLES host, fk_ctrls, panel, made, out, steps

vars == <<host, fk_ctrls, panel, made, out, steps>>

(***************************************************************************)
(* Bounds of the model.                                                    *)
(***************************************************************************)
MaxSteps == 2
MaxRigOps == 3
MaxFault == 2

(***************************************************************************)
(* Python strings as token sequences.                                      *)
(***************************************************************************)
\* A character outside ASCII is written as the token of its code point,
\* "U+2003" for EM SPACE and "U+00E9" for e-acute: a token that begins with
\* "U+" stands for that one character and for nothing else.

\* The ASCII white space: space, tab, line feed, carriage return, form feed,
\* and vertical tab (0x0b) and the separators 0x1c-0x1f, which have no
\* escape and stand here as the characters themselves.
AsciiBlank == {" ", "\t", "\n", "\r", "\f", "", "", "", "", ""}

\* The white space outside ASCII: the characters for which str.isspace()
\* holds.
UnicodeBlank ==
  {"U+0085", "U+00A0", "U+1680", "U+2000", "U+2001", "U+2002", "U+2003",
   "U+2004", "U+2005", "U+2006", "U+2007", "U+2008", "U+2009", "U+200A",
   "U+2028", "U+2029", "U+202F", "U+205F", "U+3000"}

\* The characters str.strip() removes.
Blank == AsciiBlank \cup UnicodeBlank

StartsAt(s, p, i) ==
  /\ i + Len(p) - 1 <= Len(s)
  /\ \A k \in 1..Len(p) : s[i + k - 1] = p[k]

RECURSIVE ReplaceFrom(_, _, _, _)
ReplaceFrom(s, old, new, i) ==
  IF i > Len(s) THEN <<>>
  ELSE IF StartsAt(s, old, i)
       THEN new \o ReplaceFrom(s, old, new, i + Len(old))
       ELSE <<s[i]>> \o ReplaceFrom(s, old, new, i + 1)

\* str.replace(old, new), old not empty: every occurrence, left to right.
Replace(s, old, new) == ReplaceFrom(s, old, new, 1)

EndsWith(s, suf) ==
  /\ Len(suf) <= Len(s)
  /\ SubSeq(s, Len(s) - Len(suf) + 1, Len(s)) = suf

Contains(s, sub) == \E i \in 1..Len(s) : StartsAt(s, sub, i)

\* str.strip(): leading and trailing whitespace removed, inner kept.
Strip(s) ==
  LET keep == {i \in 1..Len(s) : s[i] \notin Blank}
  IN  IF keep = {} THEN <<>>
      ELSE SubSeq(s, CHOOSE i \in keep : \A j \in keep : i <= j,
                     CHOOSE i \in keep : \A j \in keep : j <= i)


(***************************************************************************)
(* The host scene.                                                         *)
(***************************************************************************)
Attrs == {".translateX", ".translateY", ".translateZ",
          ".rotateX", ".rotateY", ".rotateZ",
          ".scaleX", ".scaleY", ".scaleZ"}

\* The host's defaults for a transform attribute.
DefaultFlag == [lock |-> FALSE, keyable |-> TRUE, channelBox |-> FALSE]

Node(name, type, parent) ==
  [name |-> name, type |-> type, parent |-> parent, hidden |-> FALSE,
   drawStyle |-> 0, flags |-> [a \in Attrs |-> DefaultFlag], skins |-> <<>>,
   refuses |-> {}]

\* The decimal digits, each a token of its own, so that a pattern ending in
\* a digit ('_jnt1') is found in a name whose number only starts with it
\* ('_jnt10').
Digit == <<"0", "1", "2", "3", "4", "5", "6", "7", "8", "9">>

IsNum(tok) == \E k \in 1..Len(Digit) : Digit[k] = tok

\* The number n > 0 the host appends to make a name unique, in decimal.
RECURSIVE Num(_)
Num(n) == IF n < 10 THEN <<Digit[n + 1]>>
          ELSE Num(n \div 10) \o <<Digit[(n % 10) + 1]>>

\* A name without its trailing digits.
RECURSIVE Stem(_)
Stem(s) == IF s # <<>> /\ IsNum(s[Len(s)]) THEN Stem(SubSeq(s, 1, Len(s) - 1))
           ELSE s

\* cmds.objExists(name)
objExists(nodes, nm) == \E i \in 1..Len(nodes) : nodes[i].name = nm

Find(nodes, nm) == CHOOSE i \in 1..Len(nodes) : nodes[i].name = nm

\* The name the host gives when `name` is asked for node `self` (0: a new
\* node): the name itself when no other node has it, else its stem with the
\* first free number.
UniqueName(nodes, name, self) ==
  LET Used(nm) == \E i \in 1..Len(nodes) : i # self /\ nodes[i].name = nm
  IN  IF ~Used(name) THEN name
      ELSE Stem(name) \o
           Num(CHOOSE k \in 1..(Len(nodes) + 1) :
                 /\ ~Used(Stem(name) \o Num(k))
                 /\ \A j \in 1..(k - 1) : Used(Stem(name) \o Num(j)))

Children(nodes, i) == {c \in 1..Len(nodes) : nodes[c].parent = i}

\* The elements of a finite set of integers in increasing order.
RECURSIVE Sorted(_)
Sorted(S) == IF S = {} THEN <<>>
             ELSE LET m == CHOOSE x \in S : \A y \in S : x <= y
                  IN  <<m>> \o Sorted(S \ {m})

RECURSIVE PreOrder(_, _)
RECURSIVE PreOrderAll(_, _)
\* The subtree of node i, parents before children.
PreOrder(nodes, i) == <<i>> \o PreOrderAll(nodes, Sorted(Children(nodes, i)))
PreOrderAll(nodes, cs) ==
  IF cs = <<>> THEN <<>>
  ELSE PreOrder(nodes, Head(cs)) \o PreOrderAll(nodes, Tail(cs))

RECURSIVE PostOrder(_, _)
RECURSIVE PostOrderAll(_, _)
\* The subtree of node i, every node after its own descendants.
PostOrder(nodes, i) == PostOrderAll(nodes, Sorted(Children(nodes, i))) \o <<i>>
PostOrderAll(nodes, cs) ==
  IF cs = <<>> THEN <<>>
  ELSE PostOrder(nodes, Head(cs)) \o PostOrderAll(nodes, Tail(cs))

Names(nodes, idx) == [k \in 1..Len(idx) |-> nodes[idx[k]].name]

\* cmds.listRelatives(nm, ad=True, type='joint'): the joints below nm, each
\* after its own descendants; the empty sequence stands for Python's None.
listRelatives_ad(nodes, nm) ==
  LET po  == PostOrder(nodes, Find(nodes, nm))
      below == SubSeq(po, 1, Len(po) - 1)
      IsJoint(i) == nodes[i].type = "joint"
  IN  Names(nodes, SelectSeq(below, IsJoint))

\* cmds.listRelatives(nm, parent=True, type='joint')
listRelatives_parent(nodes, nm) ==
  LET p == nodes[Find(nodes, nm)].parent
  IN  IF p # 0 /\ nodes[p].type = "joint" THEN <<nodes[p].name>> ELSE <<>>

\* cmds.ls(sl=True)
ls_sl(h) == Names(h.nodes, h.sel)

\* cmds.ls(sl=True, type="joint")
ls_sl_joints(h) ==
  LET IsJoint(i) == h.nodes[i].type = "joint"
  IN  Names(h.nodes, SelectSeq(h.sel, IsJoint))

\* cmds.ls(type="joint")
ls_joints(h) ==
  LET IsJoint(i) == h.nodes[i].type = "joint"
  IN  Names(h.nodes, SelectSeq([i \in 1..Len(h.nodes) |-> i], IsJoint))

\* cmds.ls('*' + suffix)
ls_glob(h, suffix) ==
  LET Match(i) == EndsWith(h.nodes[i].name, suffix)
  IN  Names(h.nodes, SelectSeq([i \in 1..Len(h.nodes) |-> i], Match))

(***************************************************************************)
(* One operation's run: the host state it works on, the Python exception   *)
(* in flight (raised), the ordinal of the last scene-changing command (n), *)
(* the ordinals the host rejects (faults), the commands issued (log), what *)
(* the operation has reported, the success counter of its loop, and the    *)
(* RigBuilder's fk_ctrls dictionary as the operation has updated it.       *)
(***************************************************************************)
Begin(hst, fk, faults) ==
  [nodes |-> hst.nodes, sel |-> hst.sel, file |-> hst.file,
   weights |-> hst.weights, home |-> hst.home, dirs |-> hst.dirs,
   files |-> hst.files, fk |-> fk,
   n |-> 0, faults |-> faults, raised |-> FALSE,
   log |-> <<>>, warnings |-> <<>>, dialogs |-> <<>>, printed |-> <<>>,
   count |-> 0, ret |-> <<>>]

HostOf(h) == [nodes |-> h.nodes, sel |-> h.sel, file |-> h.file,
              weights |-> h.weights, home |-> h.home, dirs |-> h.dirs,
              files |-> h.files]

\* The host takes the next scene-changing command unless its ordinal is
\* among the rejected ones.
Accepts(h) == (h.n + 1) \notin h.faults

\* The host refuses to change `what` on the node named nm.
Refuses(h, nm, what) == what \in h.nodes[Find(h.nodes, nm)].refuses

\* A scene-changing command is issued: counted, logged, and raising when
\* the host rejects it.
Issue(h, cmd, a, b, ok) ==
  [h EXCEPT !.n = @ + 1,
            !.log = Append(@, [cmd |-> cmd, a |-> a, b |-> b, ok |-> ok]),
            !.raised = ~ok]

\* cmds.warning(msg), cmds.confirmDialog(...), print(...)
warning(h, text, about) ==
  [h EXCEPT !.warnings = Append(@, [text |-> text, about |-> about])]
confirmDialog(h, title, count, path) ==
  IF h.raised THEN h
  ELSE [h EXCEPT !.dialogs = Append(@, [title |-> title, count |-> count,
                                        path |-> path])]
print(h, text, count) ==
  [h EXCEPT !.printed = Append(@, [text |-> text, count |-> count])]

\* cmds.select(clear=True)
select_clear(h) == IF h.raised THEN h ELSE [h EXCEPT !.sel = <<>>]

\* cmds.rename(obj, new): the node takes the name, made unique; returns it.
rename(h, obj, new) ==
  IF h.raised THEN h
  ELSE LET ok == Accepts(h) /\ objExists(h.nodes, obj)
                   /\ ~Refuses(h, obj, "rename")
           h1 == Issue(h, "rename", obj, new, ok)
       IN  IF ~ok THEN h1
           ELSE LET i  == Find(h.nodes, obj)
                    nm == UniqueName(h.nodes, new, i)
                IN  [h1 EXCEPT !.nodes[i].name = nm, !.ret = nm]

\* cmds.joint(name=...): a new joint under the selected joint, or under the
\* world when nothing is selected; it becomes the selection.
joint(h, name) ==
  IF h.raised THEN h
  ELSE LET ok == Accepts(h)
           h1 == Issue(h, "joint", name, <<>>, ok)
       IN  IF ~ok THEN h1
           ELSE LET nm == UniqueName(h.nodes, name, 0)
                    p  == IF h.sel # <<>> /\ h.nodes[h.sel[Len(h.sel)]].type = "joint"
                          THEN h.sel[Len(h.sel)] ELSE 0
                IN  [h1 EXCEPT !.nodes = Append(@, Node(nm, "joint", p)),
                               !.sel = <<Len(h.nodes) + 1>>, !.ret = nm]

\* cmds.parent(child, par): child becomes a child of par and the selection.
parent(h, child, par) ==
  IF h.raised THEN h
  ELSE LET ok == Accepts(h) /\ objExists(h.nodes, child) /\ objExists(h.nodes, par)
           h1 == Issue(h, "parent", child, par, ok)
       IN  IF ~ok THEN h1
           ELSE LET c == Find(h.nodes, child)
                IN  [h1 EXCEPT !.nodes[c].parent = Find(h.nodes, par),
                               !.sel = <<c>>, !.ret = <<child>>]

RECURSIVE DupFrom(_, _, _, _)
\* The copies of the nodes src[k..] appended to nodes, each under the copy
\* of its parent and under a unique name (renameChildren=True).
DupFrom(nodes, src, base, k) ==
  IF k > Len(src) THEN nodes
  ELSE LET o == nodes[src[k]]
           p == IF k = 1 THEN o.parent
                ELSE base + (CHOOSE j \in 1..Len(src) : src[j] = o.parent)
           c == [o EXCEPT !.name = UniqueName(nodes, o.name, 0),
                          !.parent = p, !.skins = <<>>]
       IN  DupFrom(Append(nodes, c), src, base, k + 1)

\* cmds.duplicate(nm, renameChildren=True): copies the hierarchy of nm next
\* to it; returns the new names, the root first; the root copy is selected.
duplicate(h, nm) ==
  IF h.raised THEN h
  ELSE LET ok == Accepts(h) /\ objExists(h.nodes, nm)
           h1 == Issue(h, "duplicate", nm, <<>>, ok)
       IN  IF ~ok THEN h1
           ELSE LET src == PreOrder(h.nodes, Find(h.nodes, nm))
                    base == Len(h.nodes)
                    all == DupFrom(h.nodes, src, base, 1)
                IN  [h1 EXCEPT !.nodes = all, !.sel = <<base + 1>>,
                               !.ret = [k \in 1..Len(src) |-> all[base + k].name]]

\* cmds.circle(n=..., ch=0): a new curve transform under the world.
circle(h, n) ==
  IF h.raised THEN h
  ELSE LET ok == Accepts(h)
           h1 == Issue(h, "circle", n, <<>>, ok)
       IN  IF ~ok THEN h1
           ELSE LET nm == UniqueName(h.nodes, n, 0)
                IN  [h1 EXCEPT !.nodes = Append(@, Node(nm, "transform", 0)),
                               !.sel = <<Len(h.nodes) + 1>>, !.ret = <<nm>>]

\* cmds.group(child, n=...): a new transform takes the place of child under
\* child's parent, and child goes under it.
group(h, child, n) ==
  IF h.raised THEN h
  ELSE LET ok == Accepts(h) /\ objExists(h.nodes, child)
           h1 == Issue(h, "group", child, n, ok)
       IN  IF ~ok THEN h1
           ELSE LET c  == Find(h.nodes, child)
                    nm == UniqueName(h.nodes, n, 0)
                    g  == Len(h.nodes) + 1
                IN  [h1 EXCEPT !.nodes = Append([@ EXCEPT ![c].parent = g],
                                                Node(nm, "transform", h.nodes[c].parent)),
                               !.sel = <<g>>, !.ret = nm]

\* cmds.matchTransform(a, b): a takes b's position (positions are not part
\* of the model; the command is issued and may be rejected).
matchTransform(h, a, b) ==
  IF h.raised THEN h
  ELSE Issue(h, "matchTransform", a, b,
             Accepts(h) /\ objExists(h.nodes, a) /\ objExists(h.nodes, b))

\* cmds.parentConstraint(ctrl, jnt, mo=True): a constraint node under jnt.
parentConstraint(h, ctrl, jnt) ==
  IF h.raised THEN h
  ELSE LET ok == Accepts(h) /\ objExists(h.nodes, ctrl) /\ objExists(h.nodes, jnt)
           h1 == Issue(h, "parentConstraint", ctrl, jnt, ok)
       IN  IF ~ok THEN h1
           ELSE LET nm == UniqueName(h.nodes, jnt \o <<"_parentConstraint", "1">>, 0)
                IN  [h1 EXCEPT !.nodes = Append(@, Node(nm, "parentConstraint",
                                                        Find(h.nodes, jnt))),
                               !.ret = <<nm>>]

RECURSIVE IsBelow(_, _, _)
\* Node i is a proper descendant of node a.
IsBelow(nodes, i, a) ==
  /\ nodes[i].parent # 0
  /\ (nodes[i].parent = a \/ IsBelow(nodes, nodes[i].parent, a))

\* cmds.ikHandle(sj=..., ee=..., sol='ikRPsolver'): a handle under the world
\* and an effector next to the end joint; the end joint must be below the
\* start joint.  Returns [handle, effector].
ikHandle(h, sj, ee) ==
  IF h.raised THEN h
  ELSE LET ok == /\ Accepts(h)
                 /\ objExists(h.nodes, sj) /\ objExists(h.nodes, ee)
                 /\ IsBelow(h.nodes, Find(h.nodes, ee), Find(h.nodes, sj))
           h1 == Issue(h, "ikHandle", sj, ee, ok)
       IN  IF ~ok THEN h1
           ELSE LET hn  == UniqueName(h.nodes, <<"ikHandle", "1">>, 0)
                    n1  == Append(h.nodes, Node(hn, "ikHandle", 0))
                    en  == UniqueName(n1, <<"effector", "1">>, 0)
                    n2  == Append(n1, Node(en, "ikEffector",
                                           h.nodes[Find(h.nodes, ee)].parent))
                IN  [h1 EXCEPT !.nodes = n2, !.sel = <<Len(h.nodes) + 1>>,
                               !.ret = <<hn, en>>]

\* cmds.hide(node) and cmds.showHidden(node)
hide(h, node) ==
  IF h.raised THEN h
  ELSE LET ok == Accepts(h) /\ objExists(h.nodes, node)
           h1 == Issue(h, "hide", node, <<>>, ok)
       IN  IF ~ok THEN h1
           ELSE [h1 EXCEPT !.nodes[Find(h.nodes, node)].hidden = TRUE]

showHidden(h, node) ==
  IF h.raised THEN h
  ELSE LET ok == Accepts(h) /\ objExists(h.nodes, node)
           h1 == Issue(h, "showHidden", node, <<>>, ok)
       IN  IF ~ok THEN h1
           ELSE [h1 EXCEPT !.nodes[Find(h.nodes, node)].hidden = FALSE]

\* cmds.setAttr(obj + attr, lock=..., keyable=..., channelBox=...): the three
\* flags of the attribute become the values given.
setAttr_flags(h, obj, attr, lock, keyable, channelBox) ==
  IF h.raised THEN h
  ELSE LET ok == Accepts(h) /\ objExists(h.nodes, obj) /\ attr \in Attrs
                   /\ ~Refuses(h, obj, attr)
           h1 == Issue(h, "setAttr", obj, <<attr>>, ok)
       IN  IF ~ok THEN h1
           ELSE [h1 EXCEPT !.nodes[Find(h.nodes, obj)].flags[attr] =
                   [lock |-> lock, keyable |-> keyable, channelBox |-> channelBox]]

\* cmds.setAttr(joint + ".drawStyle", value)
setAttr_drawStyle(h, jnt, value) ==
  IF h.raised THEN h
  ELSE LET ok == Accepts(h) /\ objExists(h.nodes, jnt)
                   /\ ~Refuses(h, jnt, ".drawStyle")
           h1 == Issue(h, "setAttr", jnt, <<".drawStyle">>, ok)
       IN  IF ~ok THEN h1
           ELSE [h1 EXCEPT !.nodes[Find(h.nodes, jnt)].drawStyle = value]

\* cmds.copySkinWeights(ss=..., ds=..., noMirror=True): the destination
\* cluster takes the weights of the source cluster.
copySkinWeights(h, ss, ds) ==
  IF h.raised THEN h
  ELSE LET ok == /\ Accepts(h)
                 /\ ss \in DOMAIN h.weights /\ ds \in DOMAIN h.weights
                 /\ ~h.weights[ds].locked
           h1 == Issue(h, "copySkinWeights", <<ss>>, <<ds>>, ok)
       IN  IF ~ok THEN h1
           ELSE [h1 EXCEPT !.weights[ds].w = h.weights[ss].w]

\* cmds.file(rename=path): the scene takes the file name.
file_rename(h, path) ==
  IF h.raised THEN h
  ELSE LET ok == Accepts(h) /\ h.file.refuses # "rename"
           h1 == Issue(h, "file_rename", path, <<>>, ok)
       IN  IF ~ok THEN h1 ELSE [h1 EXCEPT !.file.name = path]

\* cmds.file(save=True, type=...): the scene is written under its name.
file_save(h, type) ==
  IF h.raised THEN h
  ELSE LET ok == Accepts(h) /\ h.file.refuses # "save"
           h1 == Issue(h, "file_save", h.file.name, <<type>>, ok)
       IN  IF ~ok THEN h1
           ELSE [h1 EXCEPT !.file.saved = @ \cup {<<h.file.name, type>>}]

\* A Python exception raised by the code itself (TypeError, NameError).
Raise(h) == [h EXCEPT !.raised = TRUE]

Reverse(s) == [k \in 1..Len(s) |-> s[Len(s) + 1 - k]]

\* Statement sequencing: the run h, once computed, goes on with F.
Then(h, F(_)) == CHOOSE r \in {F(x) : x \in {h}} : TRUE

\* return value: the operation's result is kept in ret.
Return(h, value) == [h EXCEPT !.ret = value]

(***************************************************************************)
(* RigBuilder (src/AUTORIG/RigBuilder.py)                                  *)
(***************************************************************************)
drv_jnt == <<"_drv", "_jnt">>
FK_jnt  == <<"_FK", "_jnt">>
IK_jnt  == <<"_IK", "_jnt">>
spine_drv_jnt == <<"spine">> \o drv_jnt
spine_FK_jnt  == <<"spine">> \o FK_jnt
spine_IK_jnt  == <<"spine">> \o IK_jnt

\* RigBuilder.joint_creation(name, pos, parent_name); <<>> is parent_name=None
joint_creation(h, name, parent_name) ==
  Then(select_clear(h), LAMBDA h1 :
  Then(joint(h1, name \o drv_jnt), LAMBDA h2 :
    IF h2.raised \/ parent_name = <<>> THEN h2
    ELSE Then(parent(h2, h2.ret, parent_name), LAMBDA h3 :
           IF h3.raised THEN h3 ELSE Return(h3, h2.ret))))

\* RigBuilder.setup_control(jnt)
setup_control(h, jnt) ==
  Then(circle(h, Replace(jnt, <<"_jnt">>, <<"_CTRL">>)), LAMBDA h1 :
    IF h1.raised THEN h1 ELSE
  Then(group(h1, h1.ret[1], Replace(jnt, <<"_jnt">>, <<"_offset">>)), LAMBDA h2 :
    IF h2.raised THEN h2 ELSE
  Then(group(h2, h2.ret, Replace(jnt, <<"_jnt">>, <<"_GRP">>)), LAMBDA h3 :
    IF h3.raised THEN h3 ELSE
  Then(matchTransform(h3, h3.ret, jnt), LAMBDA h4 :
  Then(parentConstraint(h4, h1.ret[1], jnt), LAMBDA h5 :
    IF h5.raised THEN h5 ELSE Return(h5, h3.ret))))))

\* The joints of create_basic_skeleton in creation order, each with the
\* position in this list of the joint passed as parent_name (0: none).
Skeleton ==
  << [name |-> <<"spine">>,       par |-> 0],
     [name |-> <<"hip">>,         par |-> 1],
     [name |-> <<"chest">>,       par |-> 1],
     [name |-> <<"head">>,        par |-> 3],
     [name |-> <<"rt_thigh">>,    par |-> 2],
     [name |-> <<"rt_knee">>,     par |-> 5],
     [name |-> <<"rt_ankle">>,    par |-> 6],
     [name |-> <<"rt_foot">>,     par |-> 7],
     [name |-> <<"lt_thigh">>,    par |-> 2],
     [name |-> <<"lt_knee">>,     par |-> 9],
     [name |-> <<"lt_ankle">>,    par |-> 10],
     [name |-> <<"lt_foot">>,     par |-> 11],
     [name |-> <<"rt_shoulder">>, par |-> 3],
     [name |-> <<"rt_elbow">>,    par |-> 13],
     [name |-> <<"rt_wrist">>,    par |-> 14],
     [name |-> <<"lt_shoulder">>, par |-> 3],
     [name |-> <<"lt_elbow">>,    par |-> 16],
     [name |-> <<"lt_wrist">>,    par |-> 17] >>

RECURSIVE skeleton_from(_, _, _)
\* env[k] is the value joint_creation returned for the k-th joint.
skeleton_from(h, env, k) ==
  IF k > Len(Skeleton) \/ h.raised THEN h
  ELSE Then(joint_creation(h, Skeleton[k].name,
                           IF Skeleton[k].par = 0 THEN <<>>
                           ELSE env[Skeleton[k].par]),
            LAMBDA h1 : IF h1.raised THEN h1
                        ELSE Then(Append(env, h1.ret), LAMBDA env1 :
                                    skeleton_from(h1, env1, k + 1)))

\* RigBuilder.create_basic_skeleton()
create_basic_skeleton(h) == skeleton_from(h, <<>>, 1)

\* The rig builder without the guard on the base skeleton.
HasBaseSkeleton_unchecked(h) == TRUE

\* The guard of create_fk_chain and create_ik_setup.
HasBaseSkeleton(h) == objExists(h.nodes, spine_drv_jnt)

RECURSIVE rename_each(_, _, _, _, _)
\* for joint in joints: cmds.rename(joint, joint.replace(old, new))
rename_each(h, joints, old, new, k) ==
  IF k > Len(joints) \/ h.raised THEN h
  ELSE Then(rename(h, joints[k], Replace(joints[k], old, new)),
            LAMBDA h1 : rename_each(h1, joints, old, new, k + 1))

DictGet(d, key) == IF key \in DOMAIN d THEN d[key] ELSE <<>>
DictPut(d, key, val) ==
  [x \in DOMAIN d \cup {key} |-> IF x = key THEN val ELSE d[x]]

\* parent_jnt = listRelatives(jnt, parent=True, type='joint') and the parent
\* control looked up in fk_ctrls; <<>> when there is none.
fk_parent_ctrl(h, jnt) ==
  LET parent_jnt == listRelatives_parent(h.nodes, jnt)
  IN  IF parent_jnt = <<>> THEN <<>>
      ELSE DictGet(h.fk, Replace(parent_jnt[1], FK_jnt, <<>>))

\* One pass of the control loop of create_fk_chain.
fk_control(h, jnt) ==
  Then(Replace(jnt, FK_jnt, <<>>), LAMBDA base_name :
  Then(circle(h, base_name \o <<"_CTRL">>), LAMBDA h1 :
    IF h1.raised THEN h1 ELSE
  Then(group(h1, h1.ret[1], base_name \o <<"_offset">>), LAMBDA h2 :
    IF h2.raised THEN h2 ELSE
  Then(group(h2, h2.ret, base_name \o <<"_GRP">>), LAMBDA h3 :
    IF h3.raised THEN h3 ELSE
  Then(matchTransform(h3, h3.ret, jnt), LAMBDA h4 :
  Then(parentConstraint(h4, h1.ret[1], jnt), LAMBDA h5 :
    IF h5.raised THEN h5 ELSE
  Then(IF fk_parent_ctrl(h5, jnt) = <<>> THEN h5
       ELSE parent(h5, h3.ret, fk_parent_ctrl(h5, jnt)), LAMBDA h6 :
    IF h6.raised THEN h6
    ELSE [h6 EXCEPT !.fk = DictPut(@, base_name, h1.ret[1])])))))))

RECURSIVE fk_controls(_, _, _)
fk_controls(h, fk_joints, k) ==
  IF k > Len(fk_joints) \/ h.raised THEN h
  ELSE Then(fk_control(h, fk_joints[k]),
            LAMBDA h1 : fk_controls(h1, fk_joints, k + 1))

\* fk_joints of create_fk_chain: the chain below 'spine_FK_jnt', root first.
fk_joints_of(h) ==
  Reverse(Append(listRelatives_ad(h.nodes, spine_FK_jnt), spine_FK_jnt))

\* RigBuilder.create_fk_chain()
create_fk_chain(h) ==
  IF ~HasBaseSkeleton(h)
  THEN warning(h, "No base skeleton found. Create skeleton first.", <<>>)
  ELSE
  Then(duplicate(h, spine_drv_jnt), LAMBDA h1 :
    IF h1.raised THEN h1 ELSE
  Then(rename(h1, h1.ret[1], spine_FK_jnt), LAMBDA h2 :
    IF h2.raised THEN h2 ELSE
  Then(listRelatives_ad(h2.nodes, h2.ret), LAMBDA below :
  \* iterating over None raises TypeError
  Then(IF below = <<>> THEN Raise(h2)
       ELSE rename_each(h2, below, drv_jnt, FK_jnt, 1), LAMBDA h3 :
    IF h3.raised THEN h3
    ELSE Then(fk_joints_of(h3), LAMBDA fk_joints :
                fk_controls(h3, fk_joints, 1))))))

\* The limbs of create_ik_setup: start joint, end joint and handle name.
IKj(base) == <<base>> \o IK_jnt \o <<"1">>
limbs ==
  << <<IKj("rt_thigh"),    IKj("rt_ankle"), <<"rt_leg", "_IKHandle">> >>,
     <<IKj("lt_thigh"),    IKj("lt_ankle"), <<"lt_leg", "_IKHandle">> >>,
     <<IKj("rt_shoulder"), IKj("rt_wrist"), <<"rt_arm", "_IKHandle">> >>,
     <<IKj("lt_shoulder"), IKj("lt_wrist"), <<"lt_arm", "_IKHandle">> >> >>

\* ctrl_name = end_jnt.replace('_jnt1', '_CTRL1')
ik_ctrl_name(end_jnt) == Replace(end_jnt, <<"_jnt", "1">>, <<"_CTRL", "1">>)

\* One pass of the limb loop of create_ik_setup.
ik_limb(h, limb) ==
  IF h.raised \/ ~(objExists(h.nodes, limb[1]) /\ objExists(h.nodes, limb[2]))
  THEN h
  ELSE
  Then(ikHandle(h, limb[1], limb[2]), LAMBDA h1 :
    IF h1.raised THEN h1 ELSE
  Then(rename(h1, h1.ret[1], limb[3]), LAMBDA h2 :
    IF h2.raised THEN h2 ELSE
  Then(setup_control(h2, limb[2]), LAMBDA h3 :
    IF h3.raised \/ ~objExists(h3.nodes, ik_ctrl_name(limb[2])) THEN h3
    ELSE parent(h3, h2.ret, ik_ctrl_name(limb[2])))))

RECURSIVE ik_limbs(_, _)
ik_limbs(h, k) ==
  IF k > Len(limbs) \/ h.raised THEN h
  ELSE Then(ik_limb(h, limbs[k]), LAMBDA h1 : ik_limbs(h1, k + 1))

\* RigBuilder.create_ik_setup()
create_ik_setup(h) ==
  IF ~HasBaseSkeleton(h)
  THEN warning(h, "No base skeleton found. Create skeleton first.", <<>>)
  ELSE
  Then(duplicate(h, spine_drv_jnt), LAMBDA h1 :
    IF h1.raised THEN h1 ELSE
  Then(rename(h1, h1.ret[1], spine_IK_jnt), LAMBDA h2 :
    IF h2.raised THEN h2 ELSE
  Then(Append(listRelatives_ad(h2.nodes, h2.ret), h2.ret), LAMBDA ik_joints :
  Then(rename_each(h2, ik_joints, drv_jnt, IK_jnt, 1), LAMBDA h3 :
    ik_limbs(h3, 1)))))

RECURSIVE hide_each(_, _, _, _)
\* for node in nodes[lo..hi]: if cmds.objExists(node): cmds.hide(node)
\* The passes run in list order; the range is walked in two halves.
hide_each(h, nodes, lo, hi) ==
  IF lo > hi \/ h.raised THEN h
  ELSE IF lo = hi
  THEN (IF objExists(h.nodes, nodes[lo]) THEN hide(h, nodes[lo]) ELSE h)
  ELSE Then((lo + hi) \div 2, LAMBDA mid :
       Then(hide_each(h, nodes, lo, mid), LAMBDA h1 :
         hide_each(h1, nodes, mid + 1, hi)))

RECURSIVE show_each(_, _, _, _)
\* for node in nodes[lo..hi]: if cmds.objExists(node): cmds.showHidden(node)
show_each(h, nodes, lo, hi) ==
  IF lo > hi \/ h.raised THEN h
  ELSE IF lo = hi
  THEN (IF objExists(h.nodes, nodes[lo]) THEN showHidden(h, nodes[lo]) ELSE h)
  ELSE Then((lo + hi) \div 2, LAMBDA mid :
       Then(show_each(h, nodes, lo, mid), LAMBDA h1 :
         show_each(h1, nodes, mid + 1, hi)))

\* all_nodes of show_display_mode
all_nodes(h) ==
  ls_glob(h, drv_jnt) \o ls_glob(h, FK_jnt) \o ls_glob(h, IK_jnt)
    \o ls_glob(h, <<"_CTRL">>) \o ls_glob(h, <<"_GRP">>)
    \o ls_glob(h, <<"_offset">>) \o ls_glob(h, <<"_IKHandle">>)

\* nodes_to_show of show_display_mode, for the three modes of the panel
nodes_to_show(h, mode) ==
  IF mode = "base" THEN ls_glob(h, drv_jnt)
  ELSE IF mode = "fk"
  THEN ls_glob(h, FK_jnt) \o ls_glob(h, <<"_CTRL">>) \o ls_glob(h, <<"_GRP">>)
         \o ls_glob(h, <<"_offset">>)
  ELSE ls_glob(h, IK_jnt) \o ls_glob(h, <<"_CTRL">>) \o ls_glob(h, <<"_GRP">>)
         \o ls_glob(h, <<"_offset">>) \o ls_glob(h, <<"_IKHandle">>)

\* RigBuilder.show_display_mode(mode)
show_display_mode(h, mode) ==
  Then(all_nodes(h), LAMBDA nodes :
  Then(hide_each(h, nodes, 1, Len(nodes)), LAMBDA h1 :
    IF h1.raised THEN h1
    ELSE IF mode \notin {"base", "fk", "ik"}
    THEN Raise(h1)   \* nodes_to_show is unbound: NameError
    ELSE Then(nodes_to_show(h1, mode), LAMBDA shown :
                show_each(h1, shown, 1, Len(shown)))))

(***************************************************************************)
(* ObjectRenamer (src/AUTORIG/ObjRenamer.py)                               *)
(***************************************************************************)
\* A renamer that ignores is_prefix.
new_name_prefixed(name, obj, is_prefix) == name \o <<"_">> \o obj

\* new_name of the loop body of rename_objects
new_name(name, obj, is_prefix) ==
  IF is_prefix THEN name \o <<"_">> \o obj ELSE obj \o <<"_">> \o name

\* The rename loop without its handler: the exception stays in flight.
rename_uncaught(h, obj) == h

\* except Exception: cmds.warning("Failed to rename ...")
rename_except(h, obj) ==
  warning([h EXCEPT !.raised = FALSE], "Failed to rename", obj)

RECURSIVE rename_loop(_, _, _, _, _)
rename_loop(h, sel, name, is_prefix, k) ==
  IF k > Len(sel) \/ h.raised THEN h
  ELSE Then(rename(h, sel[k], new_name(name, sel[k], is_prefix)), LAMBDA h1 :
       Then(IF h1.raised THEN rename_except(h1, sel[k])
            ELSE [h1 EXCEPT !.count = @ + 1], LAMBDA h2 :
         rename_loop(h2, sel, name, is_prefix, k + 1)))

\* A validation that tests the raw input instead of the stripped one.
NoNameInput_raw(name_input) == name_input = <<>>

\* The name input is rejected: nothing is left of it after strip().
NoNameInput(name_input) == Strip(name_input) = <<>>

\* ObjectRenamer.rename_objects(name_input, is_prefix)
rename_objects(h, name_input, is_prefix) ==
  IF ls_sl(h) = <<>>
  THEN Return(warning(h, "No objects selected.", <<>>), FALSE)
  ELSE IF NoNameInput(name_input)
  THEN Return(warning(h, "No name input provided.", <<>>), FALSE)
  ELSE Then(rename_loop(h, ls_sl(h), Strip(name_input), is_prefix, 1), LAMBDA h1 :
         IF h1.raised THEN h1
         ELSE IF h1.count > 0
         THEN Return(confirmDialog(h1, "Rename Objects", h1.count, <<>>), TRUE)
         ELSE Return(h1, FALSE))

(***************************************************************************)
(* AttributeLocker (src/AUTORIG/attributeLocker.py)                        *)
(***************************************************************************)
\* AttributeLocker.attributes
attributes ==
  [Translate |-> <<".translateX", ".translateY", ".translateZ">>,
   Rotate    |-> <<".rotateX", ".rotateY", ".rotateZ">>,
   Scale     |-> <<".scaleX", ".scaleY", ".scaleZ">>]

\* An attribute list that ignores the check boxes.
attr_groups_all(translate, rotate, scale) ==
  attributes.Translate \o attributes.Rotate \o attributes.Scale

\* attr_groups as lock_unlock_attributes builds it
attr_groups(translate, rotate, scale) ==
  (IF translate THEN attributes.Translate ELSE <<>>)
    \o (IF rotate THEN attributes.Rotate ELSE <<>>)
    \o (IF scale THEN attributes.Scale ELSE <<>>)

\* A setAttr that never clears a lock once set.
lock_setAttr_sticky(h, obj, attr, lock) ==
  setAttr_flags(h, obj, attr,
                lock \/ h.nodes[Find(h.nodes, obj)].flags[attr].lock, ~lock, ~lock)

\* cmds.setAttr(obj + attr, lock=lock, keyable=not lock, channelBox=not lock)
lock_setAttr(h, obj, attr, lock) == setAttr_flags(h, obj, attr, lock, ~lock, ~lock)

RECURSIVE lock_attrs(_, _, _, _, _)
\* for attr in attr_groups: cmds.setAttr(...)
lock_attrs(h, obj, groups, lock, k) ==
  IF k > Len(groups) \/ h.raised THEN h
  ELSE Then(lock_setAttr(h, obj, groups[k], lock),
            LAMBDA h1 : lock_attrs(h1, obj, groups, lock, k + 1))

\* A handler that counts the failed object as a success.
lock_except_counted(h, obj) ==
  [warning([h EXCEPT !.raised = FALSE], "Failed to modify attributes on", obj)
     EXCEPT !.count = @ + 1]

\* except Exception: cmds.warning("Failed to modify attributes on ...")
lock_except(h, obj) ==
  warning([h EXCEPT !.raised = FALSE], "Failed to modify attributes on", obj)

RECURSIVE lock_loop(_, _, _, _, _)
lock_loop(h, sel, groups, lock, k) ==
  IF k > Len(sel) \/ h.raised THEN h
  ELSE Then(lock_attrs(h, sel[k], groups, lock, 1), LAMBDA h1 :
       Then(IF h1.raised THEN lock_except(h1, sel[k])
            ELSE [h1 EXCEPT !.count = @ + 1], LAMBDA h2 :
         lock_loop(h2, sel, groups, lock, k + 1)))

\* AttributeLocker.lock_unlock_attributes(lock, translate, rotate, scale)
lock_unlock_attributes(h, lock, translate, rotate, scale) ==
  IF ls_sl(h) = <<>>
  THEN Return(warning(h, "No objects selected.", <<>>), FALSE)
  ELSE IF attr_groups(translate, rotate, scale) = <<>>
  THEN Return(warning(h, "No attributes specified.", <<>>), FALSE)
  ELSE Then(lock_loop(h, ls_sl(h), attr_groups(translate, rotate, scale), lock, 1),
            LAMBDA h1 :
         IF h1.raised THEN h1
         ELSE IF h1.count > 0
         THEN Return(print(h1, IF lock THEN "locked" ELSE "unlocked", h1.count),
                     TRUE)
         ELSE Return(h1, FALSE))

(***************************************************************************)
(* SkinWeightManager (src/AUTORIG/skinWeightMGMT.py)                       *)
(***************************************************************************)
\* SkinWeightManager.target_objects
target_objects == << <<"two">>, <<"three">>, <<"four">> >>

\* SkinWeightManager.get_skin_cluster(obj): the first skin cluster of the
\* object's history, "" for None.
get_skin_cluster(h, obj) ==
  LET skin_clusters == h.nodes[Find(h.nodes, obj)].skins
  IN  IF skin_clusters # <<>> THEN skin_clusters[1] ELSE ""

\* except Exception: cmds.warning("Failed to copy weights to ...")
copy_except(h, target) ==
  warning([h EXCEPT !.raised = FALSE], "Failed to copy weights to", target)

\* An optional list argument: Python's None, or a list of names.
None == [none |-> TRUE, items |-> <<>>]
List(items) == [none |-> FALSE, items |-> items]

\* The truth value Python gives an optional list: None and [] are false.
Truthy(x) == ~x.none /\ x.items # <<>>

\* targets = target_list or self.target_objects
targets_of(target_list) ==
  IF Truthy(target_list) THEN target_list.items ELSE target_objects

\* A loop body that copies from the target to the source.
copy_one_reversed(h, source_skin, target) ==
  IF ~objExists(h.nodes, target)
  THEN warning(h, "Target object does not exist. Skipping.", target)
  ELSE IF get_skin_cluster(h, target) = ""
  THEN warning(h, "No skinCluster found on target. Skipping.", target)
  ELSE Then(copySkinWeights(h, get_skin_cluster(h, target), source_skin),
            LAMBDA h1 : IF h1.raised THEN copy_except(h1, target)
                        ELSE [h1 EXCEPT !.count = @ + 1])

\* The body of the target loop of copy_weights.
copy_one(h, source_skin, target) ==
  IF ~objExists(h.nodes, target)
  THEN warning(h, "Target object does not exist. Skipping.", target)
  ELSE IF get_skin_cluster(h, target) = ""
  THEN warning(h, "No skinCluster found on target. Skipping.", target)
  ELSE Then(copySkinWeights(h, source_skin, get_skin_cluster(h, target)),
            LAMBDA h1 : IF h1.raised THEN copy_except(h1, target)
                        ELSE [h1 EXCEPT !.count = @ + 1])

RECURSIVE copy_loop(_, _, _, _)
copy_loop(h, source_skin, targets, k) ==
  IF k > Len(targets) \/ h.raised THEN h
  ELSE Then(copy_one(h, source_skin, targets[k]),
            LAMBDA h1 : copy_loop(h1, source_skin, targets, k + 1))

\* SkinWeightManager.copy_weights(source_obj, target_list)
copy_weights(h, source_obj, target_list) ==
  IF source_obj = <<>>
  THEN Return(warning(h, "No source object specified", <<>>), FALSE)
  ELSE IF ~objExists(h.nodes, source_obj)
  THEN Return(warning(h, "Source object does not exist", source_obj), FALSE)
  ELSE IF get_skin_cluster(h, source_obj) = ""
  THEN Return(warning(h, "No skinCluster found on", source_obj), FALSE)
  ELSE Then(copy_loop(h, get_skin_cluster(h, source_obj),
                      targets_of(target_list), 1), LAMBDA h1 :
         IF h1.raised THEN h1
         ELSE IF h1.count > 0
         THEN Return(confirmDialog(h1, "Copy Skin Weights", h1.count, <<>>), TRUE)
         ELSE Return(h1, FALSE))

(***************************************************************************)
(* JointDisplayManager (src/AUTORIG/JointDisplayMGMT.py)                   *)
(***************************************************************************)
\* except Exception: cmds.warning("Failed to set display for ...")
toggle_except(h, jnt) ==
  warning([h EXCEPT !.raised = FALSE], "Failed to set display for", jnt)

RECURSIVE toggle_loop(_, _, _, _)
toggle_loop(h, joints, draw_style, k) ==
  IF k > Len(joints) \/ h.raised THEN h
  ELSE Then(setAttr_drawStyle(h, joints[k], draw_style), LAMBDA h1 :
       Then(IF h1.raised THEN toggle_except(h1, joints[k]) ELSE h1, LAMBDA h2 :
         toggle_loop(h2, joints, draw_style, k + 1)))

\* The number toggle_joint_display prints: len(joints).
toggle_reported(h, joints) == Len(joints)

\* A scope that ignores selected_only.
toggle_scope_all(h, selected_only) == ls_joints(h)

\* joints of toggle_joint_display
toggle_scope(h, selected_only) ==
  IF selected_only THEN ls_sl_joints(h) ELSE ls_joints(h)

\* JointDisplayManager.toggle_joint_display(show, selected_only)
toggle_joint_display(h, show, selected_only) ==
  Then(toggle_scope(h, selected_only), LAMBDA joints :
    IF selected_only /\ joints = <<>>
    THEN Return(warning(h, "No joints selected.", <<>>), FALSE)
    ELSE Then(toggle_loop(h, joints, IF show THEN 0 ELSE 2, 1), LAMBDA h1 :
           IF h1.raised THEN h1
           ELSE Return(print(h1, IF show THEN "Shown" ELSE "Hidden",
                             toggle_reported(h1, joints)), TRUE)))

(***************************************************************************)
(* AssetManager (src/AUTORIG/AssetMGMT.py)                                 *)
(***************************************************************************)
\* os.path.expanduser(path) on a POSIX host whose HOME is `home`: a leading
\* '~' that a '/' or the end of the path follows is replaced by the home
\* directory without its trailing slashes, and by '/' when nothing is left.
RECURSIVE rstrip_sep(_)
rstrip_sep(s) == IF s # <<>> /\ s[Len(s)] = "/"
                 THEN rstrip_sep(SubSeq(s, 1, Len(s) - 1)) ELSE s

expanduser(path, home) ==
  IF path = <<>> \/ path[1] # "~" THEN path
  ELSE IF rstrip_sep(home) \o Tail(path) = <<>> THEN <<"/">>
       ELSE rstrip_sep(home) \o Tail(path)

\* os.path.join(a, b) on a POSIX host: b alone when it is absolute, else a
\* and b with one '/' between them unless a is empty or ends in one.
join(a, b) ==
  IF b # <<>> /\ b[1] = "/" THEN b
  ELSE IF a = <<>> \/ a[Len(a)] = "/" THEN a \o b
       ELSE a \o <<"/">> \o b

\* AssetManager.filepath, as __init__ computes it.
filepath(home) ==
  expanduser(<<"~", "/", "onedrive", "/", "Documents", "/", "maya", "/",
               "scripts", "/", "Asset", "/">>, home)

\* The place of the last '/' of a path, 0 when it has none.
rfind_sep(p) ==
  IF \E i \in 1..Len(p) : p[i] = "/"
  THEN CHOOSE i \in 1..Len(p) : p[i] = "/" /\ \A j \in (i + 1)..Len(p) : p[j] # "/"
  ELSE 0

\* os.path.split(p): the head, up to the last '/' and without its trailing
\* slashes unless it is slashes only, and the tail behind that '/'.
split(p) ==
  LET i  == rfind_sep(p)
      hd == SubSeq(p, 1, i)
  IN  [head |-> IF rstrip_sep(hd) = <<>> THEN hd ELSE rstrip_sep(hd),
       tail |-> SubSeq(p, i + 1, Len(p))]

\* os.path.isdir(p) and os.path.exists(p): a path that ends in '/' names a
\* directory or nothing.
isdir(h, p) ==
  /\ p # <<>>
  /\ (IF rstrip_sep(p) = <<>> THEN <<"/">> ELSE rstrip_sep(p)) \in h.dirs

exists(h, p) == isdir(h, p) \/ p \in h.files

\* os.mkdir(p): raises when something of that name exists or when the
\* directory it is to stand in is missing or a file.
mkdir(h, p) ==
  IF h.raised THEN h
  ELSE IF exists(h, p) \/ rstrip_sep(p) \in h.files THEN Raise(h)
  ELSE IF split(rstrip_sep(p)).head # <<>> /\ ~isdir(h, split(rstrip_sep(p)).head)
  THEN Raise(h)
  ELSE [h EXCEPT !.dirs = @ \cup {rstrip_sep(p)}]

\* os.makedirs(name): the missing directories above name are made first,
\* then name itself.  The FileExistsError that makedirs forgives on the way
\* up cannot come about here, as the head is made only when it is missing.
RECURSIVE makedirs(_, _)
makedirs(h, name) ==
  Then(IF split(name).tail = <<>> THEN split(split(name).head) ELSE split(name),
       LAMBDA ht :
  Then(IF ht.head # <<>> /\ ht.tail # <<>> /\ ~exists(h, ht.head)
       THEN makedirs(h, ht.head) ELSE h, LAMBDA h1 :
    mkdir(h1, name)))

\* AssetManager.__init__(): the asset directory is made when it is missing.
AssetManager_init(h) ==
  IF ~exists(h, filepath(h.home)) THEN makedirs(h, filepath(h.home)) ELSE h

\* except Exception: cmds.warning("Failed to save asset: ...")
save_except(h) ==
  Return(warning([h EXCEPT !.raised = FALSE], "Failed to save asset", <<>>), FALSE)

\* AssetManager.save_asset(asset_name, file_type)
save_asset(h, asset_name, file_type) ==
  IF Strip(asset_name) = <<>>
  THEN Return(warning(h, "No asset name provided.", <<>>), FALSE)
  ELSE Then(join(filepath(h.home), Strip(asset_name)), LAMBDA full_path :
       Then(file_rename(h, full_path), LAMBDA h1 :
       Then(IF file_type = "MA" THEN file_save(h1, "mayaAscii")
            ELSE file_save(h1, "mayaBinary"), LAMBDA h2 :
       Then(confirmDialog(h2, "Asset Saved", 0,
                          full_path \o (IF file_type = "MA"
                                        THEN <<".ma">> ELSE <<".mb">>)),
            LAMBDA h3 :
         IF h3.raised THEN save_except(h3) ELSE Return(h3, TRUE)))))

(***************************************************************************)
(* The state machine.  host is the host application's state, fk_ctrls the  *)
(* dictionary of the panel's RigBuilder, panel whether the toolkit's       *)
(* window exists, out the record of the last operation (its                *)
(* arguments, the state it started from, what it returned, reported and    *)
(* issued), made the joints each RigBuilder operation has created, and     *)
(* steps the number of operations run.                                     *)
(***************************************************************************)
Locked == [lock |-> TRUE, keyable |-> FALSE, channelBox |-> FALSE]
Shown  == [lock |-> FALSE, keyable |-> FALSE, channelBox |-> TRUE]

\* Everything the host can refuse to change on a node.
All == Attrs \cup {"rename", ".drawStyle"}

\* The user's scenes differ in the lock flags of 'two', the draw style of
\* the joints and whether 'three' is skinned.
Variants ==
  { [flag |-> DefaultFlag, draw |-> 0, skin3 |-> TRUE],
    [flag |-> Locked,      draw |-> 2, skin3 |-> FALSE],
    [flag |-> Shown,       draw |-> 0, skin3 |-> TRUE] }

\* What the host refuses in the user's scene: per node, per skin cluster
\* (locked), and for the scene file.
Refusals ==
  { [one |-> {}, two |-> {}, three |-> {}, jA |-> {}, jB |-> {},
     locked |-> {}, file |-> ""],
    [one |-> {"rename", ".translateY"}, two |-> {}, three |-> {}, jA |-> {},
     jB |-> {}, locked |-> {"skinCluster3"}, file |-> ""],
    [one |-> {}, two |-> All, three |-> {}, jA |-> {}, jB |-> All,
     locked |-> {"skinCluster2"}, file |-> "save"],
    [one |-> All, two |-> All, three |-> All, jA |-> All, jB |-> All,
     locked |-> {"skinCluster2", "skinCluster3"}, file |-> "rename"] }

\* The directories on the way to a path: '/', and the path up to each
\* later '/'.
Tree(p) ==
  {<<"/">>} \cup {SubSeq(p, 1, i - 1) : i \in {j \in 2..Len(p) : p[j] = "/"}}
            \cup (IF rstrip_sep(p) = <<>> THEN {} ELSE {rstrip_sep(p)})

\* The user's home directory and the file system the host runs on: an empty
\* disk, one that holds the asset directory, and one where a file named
\* 'onedrive' lies in the home directory.
Environments ==
  { [home |-> <<"/", "home", "/", "user">>, dirs |-> {<<"/">>}, files |-> {}],
    [home |-> <<"/", "root", "/">>,
     dirs |-> Tree(filepath(<<"/", "root", "/">>)), files |-> {}],
    [home |-> <<"/", "home", "/", "user">>,
     dirs |-> Tree(<<"/", "home", "/", "user">>),
     files |-> {<<"/", "home", "/", "user", "/", "onedrive">>}] }

\* The selections the user may have made: nodes in the order of selection.
Selections == {<<>>, <<1, 2>>, <<2, 4>>, <<5, 4>>}

\* A user's scene: three meshes 'one', 'two', 'three' and the joints 'jA'
\* and 'jB'; 'one' and 'two' are skinned; there is no 'four'.
UserScene(v, r, sel, env) ==
  [nodes |-> << [Node(<<"one">>, "transform", 0)
                   EXCEPT !.skins = <<"skinCluster1">>, !.refuses = r.one],
                [Node(<<"two">>, "transform", 0)
                   EXCEPT !.skins = <<"skinCluster2">>, !.refuses = r.two,
                          !.flags = [a \in Attrs |-> v.flag]],
                [Node(<<"three">>, "transform", 0)
                   EXCEPT !.skins = IF v.skin3 THEN <<"skinCluster3">> ELSE <<>>,
                          !.refuses = r.three],
                [Node(<<"jA">>, "joint", 0)
                   EXCEPT !.drawStyle = v.draw, !.refuses = r.jA],
                [Node(<<"jB">>, "joint", 4)
                   EXCEPT !.drawStyle = v.draw, !.refuses = r.jB] >>,
   sel |-> sel,
   file |-> [name |-> <<"untitled">>, saved |-> {}, refuses |-> r.file],
   home |-> env.home, dirs |-> env.dirs, files |-> env.files,
   weights |-> [c \in {"skinCluster1", "skinCluster2", "skinCluster3"} |->
                  [w |-> IF c = "skinCluster1" THEN 1
                         ELSE IF c = "skinCluster2" THEN 2 ELSE 3,
                   locked |-> c \in r.locked]]]

\* A scene for the rig builder: empty, or one joint that a user has named
\* 'spine_drv_jnt'.
RigScene(lone, env) ==
  [nodes |-> IF lone THEN <<Node(spine_drv_jnt, "joint", 0)>> ELSE <<>>,
   sel |-> <<>>,
   file |-> [name |-> <<"untitled">>, saved |-> {}, refuses |-> ""],
   home |-> env.home, dirs |-> env.dirs, files |-> env.files,
   weights |-> <<>>]

Made0 == [base |-> {}, fk |-> {}, ik |-> {}]

\* RiggingToolkitUI.__init__(): the six managers are built, the last of
\* them the AssetManager; the new RigBuilder starts with no FK controls.
RiggingToolkitUI_init(h) ==
  Then(AssetManager_init(h), LAMBDA h1 :
    IF h1.raised THEN h1 ELSE [h1 EXCEPT !.fk = <<>>])

\* show_rigging_toolkit(): a new RiggingToolkitUI, whose create_ui() puts
\* its window in the place of the old one; create_ui() queries the host and
\* builds widgets only.  When the constructor raises, no window is built
\* and an old one stays with its managers.
show_rigging_toolkit(h) == RiggingToolkitUI_init(h)

\* What an operation leaves for the observer: its arguments, the state it
\* started from, what it returned, reported and issued.
Outcome(op, args, pre, pre_fk, h, returns) ==
  [op |-> op, args |-> args, pre |-> pre, pre_fk |-> pre_fk,
   ret |-> IF h.raised THEN "exception"
           ELSE IF returns = "None" THEN "None"
           ELSE IF h.ret THEN "True" ELSE "False",
   raised |-> h.raised, log |-> h.log, warnings |-> h.warnings,
   dialogs |-> h.dialogs, printed |-> h.printed]

\* The state after show_rigging_toolkit() has been run on a scene: with the
\* panel, or without it when the constructor raised.
Opened(scene) ==
  /\ host = HostOf(show_rigging_toolkit(Begin(scene, <<>>, {})))
  /\ fk_ctrls = <<>>
  /\ panel = ~show_rigging_toolkit(Begin(scene, <<>>, {})).raised
  /\ out = Outcome("show_rigging_toolkit", <<>>, scene, <<>>,
                   show_rigging_toolkit(Begin(scene, <<>>, {})), "None")
  /\ made = Made0
  /\ steps = 0

Init ==
  \E v \in Variants, r \in Refusals, sel \in Selections, env \in Environments :
    Opened(UserScene(v, r, sel, env))

InitRig ==
  \E lone \in BOOLEAN, env \in Environments : Opened(RigScene(lone, env))

\* The sets of command ordinals the host may reject within one operation of
\* the rig builder: none, one of the first MaxFault, or one deep in a loop.
FaultSets == {{}} \cup {{k} : k \in 1..MaxFault} \cup {{10 * k} : k \in 1..MaxFault}

NoFaults == {{}}

\* The joints an operation has added to the scene.
NewJoints(h) ==
  {i \in (Len(host.nodes) + 1)..Len(h.nodes) : h.nodes[i].type = "joint"}

\* The operation whose run ended in h has returned, or let its exception
\* out to the widget callback.
Done(op, args, h, returns) ==
  /\ host' = HostOf(h)
  /\ fk_ctrls' = h.fk
  /\ panel' = (panel \/ (op = "show_rigging_toolkit" /\ ~h.raised))
  /\ out' = Outcome(op, args, host, fk_ctrls, h, returns)
  /\ made' = [base |-> made.base \cup
                         (IF op = "create_basic_skeleton" THEN NewJoints(h) ELSE {}),
              fk   |-> made.fk \cup
                         (IF op = "create_fk_chain" THEN NewJoints(h) ELSE {}),
              ik   |-> made.ik \cup
                         (IF op = "create_ik_setup" THEN NewJoints(h) ELSE {})]
  /\ steps' = steps + 1

\* What the user may have typed into a text field.
NameInputs == {<<>>, <<"\n", "U+3000">>,
               <<"\r", "U+2003", "U+00E9", "arm", "\t", "U+00A0">>}
AssetNames == {<<>>, <<"U+2028">>, <<" ", "arm", "\n">>, <<"/", "tmp", "/", "x">>}
SourceInputs == {<<>>, <<"one">>, <<"three">>, <<"five">>}

\* RiggingToolkitUI.rename_callback(name), the buttons 'LT' and 'RT'
rename_callback ==
  /\ panel
  /\ steps < MaxSteps
  /\ \E name \in {<<"LT">>, <<"RT">>}, is_prefix \in BOOLEAN :
       Done("rename_objects", [name_input |-> name, is_prefix |-> is_prefix],
            rename_objects(Begin(host, fk_ctrls, {}), name, is_prefix), "bool")

\* RiggingToolkitUI.custom_rename_callback()
custom_rename_callback ==
  /\ panel
  /\ steps < MaxSteps
  /\ \E name \in NameInputs, is_prefix \in BOOLEAN :
       Done("rename_objects", [name_input |-> name, is_prefix |-> is_prefix],
            rename_objects(Begin(host, fk_ctrls, {}), name, is_prefix), "bool")

\* RiggingToolkitUI.copy_skin_weights_callback()
copy_skin_weights_callback ==
  /\ panel
  /\ steps < MaxSteps
  /\ \E source \in SourceInputs :
       Done("copy_weights", [source_obj |-> source, target_list |-> None],
            copy_weights(Begin(host, fk_ctrls, {}), source, None), "bool")

\* The target lists a caller of copy_weights may pass.
TargetLists ==
  {None, List(<<>>), List(<< <<"three">>, <<"one">> >>),
   List(<< <<"jA">>, <<"two">>, <<"six">> >>)}

\* A direct call SkinWeightManager.copy_weights(source_obj, target_list)
copy_weights_call ==
  /\ steps < MaxSteps
  /\ \E source \in SourceInputs, target_list \in TargetLists :
       Done("copy_weights", [source_obj |-> source, target_list |-> target_list],
            copy_weights(Begin(host, fk_ctrls, {}), source, target_list), "bool")

\* RiggingToolkitUI.hide_joints_callback()
hide_joints_callback ==
  /\ panel
  /\ steps < MaxSteps
  /\ \E selected_only \in BOOLEAN :
       Done("toggle_joint_display", [show |-> FALSE, selected_only |-> selected_only],
            toggle_joint_display(Begin(host, fk_ctrls, {}), FALSE, selected_only),
            "bool")

\* RiggingToolkitUI.show_joints_callback()
show_joints_callback ==
  /\ panel
  /\ steps < MaxSteps
  /\ \E selected_only \in BOOLEAN :
       Done("toggle_joint_display", [show |-> TRUE, selected_only |-> selected_only],
            toggle_joint_display(Begin(host, fk_ctrls, {}), TRUE, selected_only),
            "bool")

\* RiggingToolkitUI.lock_attributes_callback()
lock_attributes_callback ==
  /\ panel
  /\ steps < MaxSteps
  /\ \E t \in BOOLEAN, r \in BOOLEAN, s \in BOOLEAN :
       Done("lock_unlock_attributes",
            [lock |-> TRUE, translate |-> t, rotate |-> r, scale |-> s],
            lock_unlock_attributes(Begin(host, fk_ctrls, {}), TRUE, t, r, s), "bool")

\* RiggingToolkitUI.unlock_attributes_callback()
unlock_attributes_callback ==
  /\ panel
  /\ steps < MaxSteps
  /\ \E t \in BOOLEAN, r \in BOOLEAN, s \in BOOLEAN :
       Done("lock_unlock_attributes",
            [lock |-> FALSE, translate |-> t, rotate |-> r, scale |-> s],
            lock_unlock_attributes(Begin(host, fk_ctrls, {}), FALSE, t, r, s), "bool")

\* RiggingToolkitUI.save_asset_callback()
save_asset_callback ==
  /\ panel
  /\ steps < MaxSteps
  /\ \E name \in AssetNames, type \in {"MA", "MB"} :
       Done("save_asset", [asset_name |-> name, file_type |-> type],
            save_asset(Begin(host, fk_ctrls, {}), name, type), "bool")

\* The button 'Create Basic Skeleton'
create_basic_skeleton_button(FS, max) ==
  /\ panel
  /\ steps < max
  /\ \E F \in FS :
       Done("create_basic_skeleton", <<>>,
            create_basic_skeleton(Begin(host, fk_ctrls, F)), "None")

\* The button 'Create FK Chain'
create_fk_chain_button(FS, max) ==
  /\ panel
  /\ steps < max
  /\ \E F \in FS :
       Done("create_fk_chain", <<>>,
            create_fk_chain(Begin(host, fk_ctrls, F)), "None")

\* The button 'Create IK Setup'
create_ik_setup_button(FS, max) ==
  /\ panel
  /\ steps < max
  /\ \E F \in FS :
       Done("create_ik_setup", <<>>,
            create_ik_setup(Begin(host, fk_ctrls, F)), "None")

\* The buttons 'Base Setup', 'FK Mode' and 'IK Mode'
show_display_mode_button(FS, max) ==
  /\ panel
  /\ steps < max
  /\ \E mode \in {"base", "fk", "ik"}, F \in FS :
       Done("show_display_mode", [mode |-> mode],
            show_display_mode(Begin(host, fk_ctrls, F), mode), "None")

\* show_rigging_toolkit() run again, from the script editor or a shelf.
show_rigging_toolkit_call(max) ==
  /\ steps < max
  /\ Done("show_rigging_toolkit", <<>>,
          show_rigging_toolkit(Begin(host, fk_ctrls, {})), "None")

\* The panel: every section's buttons, in any order, on the user's scene.
Next ==
  \/ show_rigging_toolkit_call(MaxSteps)
  \/ create_basic_skeleton_button(FaultSets, MaxSteps)
  \/ create_fk_chain_button(FaultSets, MaxSteps)
  \/ create_ik_setup_button(FaultSets, MaxSteps)
  \/ show_display_mode_button(FaultSets, MaxSteps)
  \/ rename_callback
  \/ custom_rename_callback
  \/ copy_skin_weights_callback
  \/ hide_joints_callback
  \/ show_joints_callback
  \/ lock_attributes_callback
  \/ unlock_attributes_callback
  \/ save_asset_callback

Spec == Init /\ [][Next]_vars

\* The Rig Builder section of the panel alone, from an empty scene, the
\* host rejecting commands.
NextRig ==
  \/ show_rigging_toolkit_call(MaxRigOps)
  \/ create_basic_skeleton_button(FaultSets, MaxRigOps)
  \/ create_fk_chain_button(FaultSets, MaxRigOps)
  \/ create_ik_setup_button(FaultSets, MaxRigOps)
  \/ show_display_mode_button(FaultSets, MaxRigOps)

SpecRig == InitRig /\ [][NextRig]_vars

\* The Rig Builder section of the panel alone, from an empty scene, the
\* host rejecting nothing.
NextRigOk ==
  \/ show_rigging_toolkit_call(MaxRigOps)
  \/ create_basic_skeleton_button(NoFaults, MaxRigOps)
  \/ create_fk_chain_button(NoFaults, MaxRigOps)
  \/ create_ik_setup_button(NoFaults, MaxRigOps)
  \/ show_display_mode_button(NoFaults, MaxRigOps)

SpecRigOk == InitRig /\ [][NextRigOk]_vars

\* The skin-weight manager, from the panel and called directly.
NextCopy ==
  \/ show_rigging_toolkit_call(MaxSteps)
  \/ copy_skin_weights_callback
  \/ copy_weights_call

SpecCopy == Init /\ [][NextCopy]_vars

(***************************************************************************)
(* Properties.  They are stated over out, the record of the last           *)
(* operation: the scene it started from (out.pre), its arguments, the      *)
(* commands it issued (out.log) and what it reported.                      *)
(***************************************************************************)
Looping == {"rename_objects", "lock_unlock_attributes", "copy_weights",
            "toggle_joint_display"}

IsBlank(s) == \A i \in 1..Len(s) : s[i] \in Blank

\* The names selected, and the joints of the scope, when the operation began.
PreSel == Names(out.pre.nodes, out.pre.sel)
PreJoints(selected_only) ==
  LET InScope(i) == /\ out.pre.nodes[i].type = "joint"
                    /\ selected_only => \E k \in 1..Len(out.pre.sel) : out.pre.sel[k] = i
      idx == IF selected_only THEN out.pre.sel
             ELSE [i \in 1..Len(out.pre.nodes) |-> i]
  IN  Names(out.pre.nodes, SelectSeq(idx, InScope))

\* The skin cluster of a named object when the operation began, "" for none.
PreSkin(nm) ==
  IF \E i \in 1..Len(out.pre.nodes) :
        out.pre.nodes[i].name = nm /\ out.pre.nodes[i].skins # <<>>
  THEN out.pre.nodes[CHOOSE i \in 1..Len(out.pre.nodes) :
                       out.pre.nodes[i].name = nm].skins[1]
  ELSE ""

\* The chosen attributes of a lock_unlock_attributes call, in call order.
Chosen(args) ==
  (IF args.translate THEN <<".translateX", ".translateY", ".translateZ">> ELSE <<>>)
  \o (IF args.rotate THEN <<".rotateX", ".rotateY", ".rotateZ">> ELSE <<>>)
  \o (IF args.scale THEN <<".scaleX", ".scaleY", ".scaleZ">> ELSE <<>>)

\* The input of the last operation was rejected by its validation.
Rejected ==
  \/ /\ out.op = "rename_objects"
     /\ PreSel = <<>> \/ IsBlank(out.args.name_input)
  \/ /\ out.op = "lock_unlock_attributes"
     /\ PreSel = <<>> \/ Chosen(out.args) = <<>>
  \/ /\ out.op = "copy_weights"
     /\ out.args.source_obj = <<>> \/ PreSkin(out.args.source_obj) = ""
  \/ /\ out.op = "save_asset"
     /\ IsBlank(out.args.asset_name)
  \/ /\ out.op = "toggle_joint_display"
     /\ out.args.selected_only /\ PreJoints(TRUE) = <<>>

\* The items the loop of the last operation has to go through, each as the
\* first argument its host command is given.
Items ==
  IF out.op \in {"rename_objects", "lock_unlock_attributes"} THEN PreSel
  ELSE IF out.op = "toggle_joint_display"
  THEN PreJoints(out.args.selected_only)
  ELSE LET Valid(t) == PreSkin(t) # ""
           Dest(t) == <<PreSkin(t)>>
           ts == SelectSeq(<< <<"two">>, <<"three">>, <<"four">> >>, Valid)
       IN  [k \in 1..Len(ts) |-> Dest(ts[k])]

\* The log entries that begin an item: every entry, but for the attribute
\* locker the entry of the first chosen attribute of each object.
Attempts ==
  LET First(e) == out.op = "lock_unlock_attributes" =>
                    e.b = <<Chosen(out.args)[1]>>
      es == SelectSeq(out.log, First)
  IN  [k \in 1..Len(es) |-> IF out.op = "copy_weights" THEN es[k].b ELSE es[k].a]

FailedEntries == {k \in 1..Len(out.log) : ~out.log[k].ok}
FailureWarnings ==
  {k \in 1..Len(out.warnings) :
     out.warnings[k].text \in {"Failed to rename", "Failed to modify attributes on",
                               "Failed to copy weights to",
                               "Failed to set display for"}}

\* C1: in every per-item loop of the managers a host-command failure on one
\* item is caught and reported as a warning, and every later item is still
\* attempted: no exception leaves the operation, the items attempted are
\* the whole list in order, and there is one warning per failure.
C1_LoopsNeverAbort ==
  (out.op \in Looping /\ ~Rejected) =>
     /\ ~out.raised
     /\ Attempts = Items
     /\ Cardinality(FailureWarnings) = Cardinality(FailedEntries)

\* C1 witness: a rename failed on the first selected object and went
\* through on the second.
C1_Witness ==
  /\ out.op = "rename_objects"
  /\ Len(out.log) = 2
  /\ ~out.log[1].ok /\ out.log[2].ok
  /\ Len(out.warnings) = 1

\* The number of items on which the host command of the last operation
\* succeeded: the commands accepted, and for the attribute locker the
\* objects all of whose chosen attributes were set.
Successes ==
  IF out.op = "lock_unlock_attributes"
  THEN Cardinality({k \in 1..Len(PreSel) :
         Cardinality({j \in 1..Len(out.log) :
                        out.log[j].a = PreSel[k] /\ out.log[j].ok})
           = Len(Chosen(out.args))})
  ELSE Cardinality({j \in 1..Len(out.log) : out.log[j].ok})

\* C2: every looping manager operation reports a count of successes: the
\* number shown in the dialog of rename_objects and copy_weights and the
\* number printed by lock_unlock_attributes and toggle_joint_display equals
\* the number of items on which the host command succeeded.
C2_ReportsSuccesses ==
  out.op \in Looping =>
     /\ \A k \in 1..Len(out.dialogs) : out.dialogs[k].count = Successes
     /\ \A k \in 1..Len(out.printed) : out.printed[k].count = Successes

\* C3: failures are caught per operation: whatever host command fails
\* inside an operation a button can invoke, no exception reaches the
\* widget callback.
C3_NoExceptionEscapes ==
  out.op \in {"create_basic_skeleton", "create_fk_chain", "create_ik_setup",
              "show_display_mode", "copy_weights", "rename_objects",
              "toggle_joint_display", "lock_unlock_attributes", "save_asset"}
    => out.raised = FALSE

\* C4: validation precedes forwarding: an operation whose input is rejected
\* returns False and has issued no scene-changing host command, so the
\* scene graph, the selection, the weights and the scene file name are as
\* they were.
C4_RejectedChangesNothing ==
  Rejected => /\ out.ret = "False"
              /\ out.log = <<>>
              /\ host = out.pre
              /\ fk_ctrls = out.pre_fk

\* C4 witness: rename_objects was given a name of white space only while
\* objects were selected.
C4_Witness ==
  /\ out.op = "rename_objects"
  /\ out.args.name_input = <<"\n", "U+3000">>
  /\ Len(out.pre.sel) = 2
  /\ out.ret = "False"

\* C5: a name suffix distinguishes the joint variants: every base joint's
\* name ends in '_drv_jnt', every joint of a duplicated FK chain ends in
\* '_FK_jnt', every joint of a duplicated IK chain ends in '_IK_jnt', and no
\* joint of a duplicated chain still carries '_drv_jnt'.
C5_SuffixDistinguishes ==
  /\ \A i \in made.base : EndsWith(host.nodes[i].name, drv_jnt)
  /\ \A i \in made.fk : /\ EndsWith(host.nodes[i].name, FK_jnt)
                        /\ ~Contains(host.nodes[i].name, drv_jnt)
  /\ \A i \in made.ik : /\ EndsWith(host.nodes[i].name, IK_jnt)
                        /\ ~Contains(host.nodes[i].name, drv_jnt)

\* The nodes only create_fk_chain and create_ik_setup make: FK and IK
\* joints, controls and IK handles.
RigArtefacts ==
  {i \in 1..Len(host.nodes) :
     \/ i \in made.fk \cup made.ik
     \/ host.nodes[i].type = "ikHandle"
     \/ Contains(host.nodes[i].name, <<"_CTRL">>)}

\* C6: the base skeleton must come first: without a node 'spine_drv_jnt',
\* create_fk_chain and create_ik_setup issue the one warning and return
\* having issued no command and left fk_ctrls alone; hence no FK joint, IK
\* joint, control or IK handle exists unless a 'spine_drv_jnt' does.
C6_BaseSkeletonFirst ==
  /\ (/\ out.op \in {"create_fk_chain", "create_ik_setup"}
      /\ ~\E i \in 1..Len(out.pre.nodes) : out.pre.nodes[i].name = spine_drv_jnt)
     => /\ out.warnings =
             <<[text |-> "No base skeleton found. Create skeleton first.",
                about |-> <<>>]>>
        /\ out.log = <<>>
        /\ ~out.raised
        /\ host = out.pre
        /\ fk_ctrls = out.pre_fk
  /\ RigArtefacts # {} =>
       \E i \in 1..Len(host.nodes) : host.nodes[i].name = spine_drv_jnt

\* C6 witness: Create IK Setup was pressed in an empty scene and warned.
C6_Witness ==
  /\ out.op = "create_ik_setup"
  /\ out.pre.nodes = <<>>
  /\ out.warnings # <<>>

\* The name rename_objects asks for: the stripped input before or after the
\* old name, joined by '_'.
Target(old) ==
  IF out.args.is_prefix THEN Strip(out.args.name_input) \o <<"_">> \o old
  ELSE old \o <<"_">> \o Strip(out.args.name_input)

\* C8: rename_objects, given a selection and a name that is not blank,
\* attempts each selected object exactly once in selection order with the
\* target name strip(name) + '_' + old or old + '_' + strip(name); an
\* object whose rename went through bears the target name (with the number
\* that makes it unique put in the place of its own), the others keep
\* theirs; it returns True exactly when a rename succeeded
\* and shows the 'Rename Objects' dialog exactly then.
C8_RenameObjects ==
  (out.op = "rename_objects" /\ ~Rejected) =>
     /\ Len(out.log) = Len(PreSel)
     /\ \A k \in 1..Len(PreSel) :
          /\ out.log[k].cmd = "rename"
          /\ out.log[k].a = PreSel[k]
          /\ out.log[k].b = Target(PreSel[k])
          /\ IF out.log[k].ok
             THEN Stem(host.nodes[out.pre.sel[k]].name) = Stem(Target(PreSel[k]))
             ELSE host.nodes[out.pre.sel[k]].name = PreSel[k]
     /\ out.ret = "True" <=> \E k \in 1..Len(out.log) : out.log[k].ok
     /\ out.dialogs # <<>> <=> \E k \in 1..Len(out.log) : out.log[k].ok
     /\ \A k \in 1..Len(out.dialogs) : out.dialogs[k].title = "Rename Objects"

\* C8 witness: a suffix typed with white space around it was put behind
\* the name of the first selected object.
C8_Witness ==
  /\ out.op = "rename_objects"
  /\ out.args.name_input = <<"\r", "U+2003", "U+00E9", "arm", "\t", "U+00A0">>
  /\ ~out.args.is_prefix
  /\ Len(out.log) = 2
  /\ out.log[1].ok
  /\ host.nodes[out.pre.sel[1]].name = out.pre.nodes[out.pre.sel[1]].name \o <<"_", "U+00E9", "arm">>
  /\ out.ret = "True"

Flags(lock) == [lock |-> lock, keyable |-> ~lock, channelBox |-> ~lock]

InSeq(x, s) == \E k \in 1..Len(s) : s[k] = x

\* The attributes of the scene o as a call with lock flag L, the chosen
\* attributes ch and the selection sel leaves them.
AfterLock(o, L, ch, sel) ==
  [o EXCEPT !.nodes =
     [i \in 1..Len(o.nodes) |->
        [o.nodes[i] EXCEPT !.flags =
           [a \in Attrs |-> IF InSeq(i, sel) /\ InSeq(a, ch) THEN Flags(L)
                            ELSE o.nodes[i].flags[a]]]]]

\* C9: lock_unlock_attributes, the host failing nowhere, gives the three
\* axis attributes of every chosen group of every selected object
\* lock = L, keyable = not L and channelBox = not L, and leaves the groups
\* not chosen, the objects not selected and the rest of the scene as they
\* were.
C9_LocksChosenOnSelected ==
  (out.op = "lock_unlock_attributes" /\ ~Rejected /\ FailedEntries = {}) =>
     /\ host = AfterLock(out.pre, out.args.lock, Chosen(out.args), out.pre.sel)
     /\ out.ret = "True"

\* C9 witness: the translate and scale attributes of two selected objects
\* were locked, one of which had them unlocked, and the rotate attributes
\* stayed unlocked.
C9_Witness ==
  /\ out.op = "lock_unlock_attributes"
  /\ out.args = [lock |-> TRUE, translate |-> TRUE, rotate |-> FALSE, scale |-> TRUE]
  /\ out.pre.sel = <<1, 2>>
  /\ FailedEntries = {}
  /\ out.pre.nodes[1].flags[".scaleZ"] = DefaultFlag
  /\ host.nodes[1].flags[".scaleZ"] = Flags(TRUE)
  /\ host.nodes[1].flags[".rotateX"] = DefaultFlag

\* The last operation was a lock or unlock that the host let through.
CleanLock ==
  out.op = "lock_unlock_attributes" /\ ~Rejected /\ FailedEntries = {}

\* C10: lock and unlock are idempotent and the last one wins: of two calls
\* in a row on the same selection and groups that the host lets through,
\* the second leaves every touched attribute with lock equal to its own
\* flag and keyable and channelBox equal to the negation, whatever the
\* first was; repeating the call changes nothing, and UNLOCK after LOCK
\* leaves every touched attribute unlocked and keyable.
C10_LastLockWins ==
  [][(CleanLock /\ CleanLock' /\ Chosen(out.args) = Chosen(out'.args)) =>
       /\ \A k \in 1..Len(host'.sel) : \A j \in 1..Len(Chosen(out'.args)) :
            host'.nodes[host'.sel[k]].flags[Chosen(out'.args)[j]]
              = Flags(out'.args.lock)
       /\ out'.args.lock = out.args.lock => host' = host
       /\ (out.args.lock /\ ~out'.args.lock) =>
            \A k \in 1..Len(host'.sel) : \A j \in 1..Len(Chosen(out'.args)) :
              LET f == host'.nodes[host'.sel[k]].flags[Chosen(out'.args)[j]]
              IN  ~f.lock /\ f.keyable]_vars

\* C10 witness: an UNLOCK has followed a LOCK of the same attributes and
\* has unlocked what the LOCK had locked.
C10_Witness ==
  /\ steps = 2
  /\ CleanLock
  /\ ~out.args.lock
  /\ out.pre.sel = <<1, 2>>
  /\ \A j \in 1..Len(Chosen(out.args)) :
       /\ out.pre.nodes[1].flags[Chosen(out.args)[j]] = Flags(TRUE)
       /\ host.nodes[1].flags[Chosen(out.args)[j]] = Flags(FALSE)

\* The joints in the scope of the last toggle_joint_display, as node
\* numbers of the scene it started from.
Scope ==
  {i \in 1..Len(out.pre.nodes) :
     /\ out.pre.nodes[i].type = "joint"
     /\ out.args.selected_only => InSeq(i, out.pre.sel)}

DrawStyle == IF out.args.show THEN 0 ELSE 2

\* The host took the setAttr the last operation issued on node i.
Accepted(i) ==
  \E k \in 1..Len(out.log) :
     out.log[k].a = out.pre.nodes[i].name /\ out.log[k].ok

\* The scene o with the draw style v on the nodes of S.
WithDrawStyle(o, S, v) ==
  [o EXCEPT !.nodes =
     [i \in 1..Len(o.nodes) |->
        IF i \in S THEN [o.nodes[i] EXCEPT !.drawStyle = v] ELSE o.nodes[i]]]

\* What toggle_joint_display returns: False only for selected_only with no
\* joint selected, True otherwise.
ToggleReturns ==
  /\ out.ret = "False" <=> (out.args.selected_only /\ Scope = {})
  /\ out.ret \in {"True", "False"}

\* C11 as stated: toggle_joint_display sets drawStyle to 0 (show) or 2
\* (hide) on every joint of its scope, all joints or exactly the selected
\* ones, leaves everything outside the scope unchanged, returns False only
\* when selected_only is true and no joint is selected and True otherwise;
\* so after a Show every joint of the scope has drawStyle 0.
C11_ToggleSetsWholeScope ==
  out.op = "toggle_joint_display" =>
     /\ ToggleReturns
     /\ host = WithDrawStyle(out.pre, Scope, DrawStyle)

\* C11 amended: toggle_joint_display issues the setAttr once on every joint
\* of its scope in order; the joints on which the host accepts it get
\* drawStyle 0 (show) or 2 (hide), the joints on which the host refuses it
\* and everything outside the scope stay as they were; it returns False
\* only when selected_only is true and no joint is selected and True
\* otherwise; a Show that follows a Hide on the same scope leaves every
\* joint of the scope that accepted it with drawStyle 0.
C11_ToggleSetsAcceptedScope ==
  /\ [](out.op = "toggle_joint_display" =>
          /\ ToggleReturns
          /\ Attempts = PreJoints(out.args.selected_only)
          /\ host = WithDrawStyle(out.pre, {i \in Scope : Accepted(i)}, DrawStyle))
  /\ [][(/\ out.op = "toggle_joint_display" /\ ~out.args.show
         /\ out'.op = "toggle_joint_display" /\ out'.args.show
         /\ out'.args.selected_only = out.args.selected_only)
        => \A i \in Scope' : Accepted(i)' => host'.nodes[i].drawStyle = 0]_vars

\* C11 witness: Show on the selected joints has followed Hide; of the two
\* joints only the selected one, hidden before, is shown now.
C11_Witness ==
  /\ steps = 2
  /\ out.op = "toggle_joint_display"
  /\ out.args = [show |-> TRUE, selected_only |-> TRUE]
  /\ out.pre.sel = <<2, 4>>
  /\ out.pre.nodes[4].drawStyle = 2 /\ host.nodes[4].drawStyle = 0
  /\ out.pre.nodes[5].drawStyle = 2 /\ host.nodes[5].drawStyle = 2
  /\ out.pre.nodes[5].refuses = {}
  /\ out.ret = "True"

\* The targets the last copy_weights worked on: the caller's list, or the
\* default targets when the caller's list is None or empty.
Targets ==
  IF out.args.target_list.none \/ out.args.target_list.items = <<>>
  THEN << <<"two">>, <<"three">>, <<"four">> >>
  ELSE out.args.target_list.items

PreExists(nm) == \E i \in 1..Len(out.pre.nodes) : out.pre.nodes[i].name = nm

\* The targets copied to and the targets skipped, in list order.
CopyTargets ==
  LET Valid(t) == PreSkin(t) # ""
  IN  SelectSeq(Targets, Valid)
SkippedTargets ==
  LET Invalid(t) == PreSkin(t) = ""
  IN  SelectSeq(Targets, Invalid)

\* The warnings about skipped targets, in the order issued.
SkipWarnings ==
  LET Skip(w) == w.text \in {"Target object does not exist. Skipping.",
                              "No skinCluster found on target. Skipping."}
  IN  SelectSeq(out.warnings, Skip)

\* The weights after the copies the host accepted: each accepted
\* destination holds what the source cluster held.
CopiedWeights ==
  [c \in DOMAIN out.pre.weights |->
     IF \E k \in 1..Len(out.log) : out.log[k].b = <<c>> /\ out.log[k].ok
     THEN [out.pre.weights[c] EXCEPT
             !.w = out.pre.weights[PreSkin(out.args.source_obj)].w]
     ELSE out.pre.weights[c]]

\* C12: copy_weights, given a source that exists and has a skin cluster,
\* goes through the targets in order: a target that does not exist or has
\* no skin cluster is skipped with a warning, every other target gets one
\* copy from the source's first skin cluster to its own first skin cluster;
\* the source's cluster is a destination only when the source is among the
\* targets; nothing else in the scene changes; the operation returns True
\* exactly when at least one copy succeeded.
C12_CopiesSourceToTargets ==
  (out.op = "copy_weights" /\ ~Rejected) =>
     /\ Len(out.log) = Len(CopyTargets)
     /\ \A k \in 1..Len(CopyTargets) :
          /\ out.log[k].cmd = "copySkinWeights"
          /\ out.log[k].a = <<PreSkin(out.args.source_obj)>>
          /\ out.log[k].b = <<PreSkin(CopyTargets[k])>>
     /\ Len(SkipWarnings) = Len(SkippedTargets)
     /\ \A k \in 1..Len(SkippedTargets) :
          /\ SkipWarnings[k].about = SkippedTargets[k]
          /\ SkipWarnings[k].text =
               IF PreExists(SkippedTargets[k])
               THEN "No skinCluster found on target. Skipping."
               ELSE "Target object does not exist. Skipping."
     /\ \A k \in 1..Len(out.log) :
          out.log[k].b = <<PreSkin(out.args.source_obj)>> =>
            InSeq(out.args.source_obj, Targets)
     /\ host = [out.pre EXCEPT !.weights = CopiedWeights]
     /\ out.ret = "True" <=> \E k \in 1..Len(out.log) : out.log[k].ok
     /\ out.ret \in {"True", "False"}

\* C12 witness: from the source 'one' a caller's list was gone through: a
\* joint without skin cluster was skipped, 'two' received the weights of
\* 'one', and a missing object was skipped.
C12_Witness ==
  /\ out.op = "copy_weights"
  /\ out.args = [source_obj |-> <<"one">>,
                 target_list |-> List(<< <<"jA">>, <<"two">>, <<"six">> >>)]
  /\ Len(out.warnings) = 2
  /\ Len(out.log) = 1 /\ out.log[1].ok
  /\ out.pre.weights["skinCluster2"].w = 2
  /\ host.weights["skinCluster2"].w = 1
  /\ host.weights["skinCluster1"].w = 1
  /\ out.ret = "True"

\* The objects the last copy_weights dealt with: those it copied to and
\* those it skipped with a warning.
DealtWith ==
  {SkipWarnings[k].about : k \in 1..Len(SkipWarnings)}
    \cup {out.pre.nodes[i].name : i \in
            {j \in 1..Len(out.pre.nodes) :
               \E k \in 1..Len(out.log) :
                  /\ out.pre.nodes[j].skins # <<>>
                  /\ out.log[k].b = <<out.pre.nodes[j].skins[1]>>}}

\* The targets as the claim has them: the default list for None, the
\* caller's list otherwise.
ClaimedTargets ==
  IF out.args.target_list.none THEN << <<"two">>, <<"three">>, <<"four">> >>
  ELSE out.args.target_list.items

\* C13: the default targets are used exactly when the caller gives none:
\* copy_weights deals with the default targets 'two', 'three', 'four' when
\* target_list is None and with the objects of the caller's list, and no
\* others, otherwise; the panel's button passes no list and so always
\* copies to the default targets.
C13_DefaultsExactlyForNone ==
  (out.op = "copy_weights" /\ ~Rejected) =>
     DealtWith = {ClaimedTargets[k] : k \in 1..Len(ClaimedTargets)}

\* The position among the chosen attributes of the first one the host
\* refuses to change on node i of the scene the operation started from;
\* one past the last when it refuses none.
FirstRefused(i) ==
  LET ch == Chosen(out.args)
      bad == {j \in 1..Len(ch) : ch[j] \in out.pre.nodes[i].refuses}
  IN  IF bad = {} THEN Len(ch) + 1
      ELSE CHOOSE j \in bad : \A x \in bad : j <= x

\* The selected objects all of whose chosen attributes the host lets change.
WhollySet ==
  {k \in 1..Len(out.pre.sel) :
     FirstRefused(out.pre.sel[k]) > Len(Chosen(out.args))}

\* The log entries of the last operation about the object named nm.
EntriesOn(nm) ==
  LET On(e) == e.a = nm
  IN  SelectSeq(out.log, On)

\* C14: lock_unlock_attributes has no rollback within an object: when
\* setting the k-th chosen attribute of a selected object fails, the k-1
\* attributes set before it keep their new flags, the attributes after it
\* are not attempted and keep their old flags, the object is warned about
\* and not counted, and the loop goes on with the next object; the count
\* printed is the number of objects wholly set, and the operation returns
\* True exactly when there is one.
C14_NoRollbackWithinObject ==
  (out.op = "lock_unlock_attributes" /\ ~Rejected) =>
     LET ch == Chosen(out.args)
     IN  /\ \A k \in 1..Len(out.pre.sel) :
              LET i == out.pre.sel[k]
                  f == FirstRefused(i)
                  es == EntriesOn(PreSel[k])
              IN  /\ Len(es) = IF f > Len(ch) THEN Len(ch) ELSE f
                  /\ \A j \in 1..Len(es) :
                       /\ es[j].b = <<ch[j]>>
                       /\ es[j].ok <=> j < f
                  /\ \A j \in 1..Len(ch) :
                       host.nodes[i].flags[ch[j]] =
                         IF j < f THEN Flags(out.args.lock)
                         ELSE out.pre.nodes[i].flags[ch[j]]
                  /\ f <= Len(ch) <=>
                       \E w \in 1..Len(out.warnings) :
                          out.warnings[w] =
                            [text |-> "Failed to modify attributes on",
                             about |-> PreSel[k]]
         /\ \A e \in 1..Len(out.log) : InSeq(out.log[e].a, PreSel)
         /\ \A p \in 1..Len(out.printed) :
              out.printed[p].count = Cardinality(WhollySet)
         /\ out.printed # <<>> <=> WhollySet # {}
         /\ out.ret = "True" <=> WhollySet # {}
         /\ out.ret \in {"True", "False"}

\* C14 witness: locking translate and rotate on 'one' and 'two', the host
\* refused translateY on 'one': translateX of 'one' is locked, translateY
\* and the attributes after it are as before, and 'two' was locked whole.
C14_Witness ==
  /\ out.op = "lock_unlock_attributes"
  /\ out.args = [lock |-> TRUE, translate |-> TRUE, rotate |-> TRUE, scale |-> FALSE]
  /\ out.pre.sel = <<1, 2>>
  /\ FirstRefused(1) = 2 /\ FirstRefused(2) = 7
  /\ out.pre.nodes[1].flags[".translateX"] = DefaultFlag
  /\ host.nodes[1].flags[".translateX"] = Flags(TRUE)
  /\ host.nodes[1].flags[".translateZ"] = DefaultFlag
  /\ host.nodes[1].flags[".rotateX"] = DefaultFlag
  /\ host.nodes[2].flags[".rotateZ"] = Flags(TRUE)
  /\ Len(out.log) = 8
  /\ out.printed = <<[text |-> "locked", count |-> 1]>>
  /\ out.ret = "True"

====
